---------------------------- MODULE Spec2Model ----------------------------
(* A model of DataProcessor (src/algorithms/data_processor.py).  Every    *)
(* static method is a small state machine of its own: one record variable *)
(* holds the arguments, the locals and the position (pc) of one call, and  *)
(* one action is one iteration of a loop of the method or one of its       *)
(* straight-line blocks.  A Python exception ends a call with              *)
(* pc = "raised" and the exception's name in err.  Python indices are      *)
(* 0-based; sequences here are 1-based, and At(s, i) reads s[i] as Python  *)
(* does for an index i >= 0.                                               *)
EXTENDS Integers, Sequences, FiniteSets, TLC

VARIABLES swm, rtd, kmp, ts, da, rtp, dth, swa

vars == <<swm, rtd, kmp, ts, da, rtp, dth, swa>>

\* Bounds of the explored inputs.
MaxLen == 4
MaxVal == 2

Values == 0..MaxVal

SeqsUpTo(S, n) == UNION {[1..m -> S] : m \in 0..n}

At(s, i) == s[i + 1]

InRange(s, i) == 0 <= i /\ i < Len(s)

Last(s) == s[Len(s)]

RECURSIVE SeqSum(_)
SeqSum(s) == IF s = <<>> THEN 0 ELSE s[1] + SeqSum(Tail(s))

SeqMax(s) == CHOOSE x \in {s[j] : j \in 1..Len(s)} : \A j \in 1..Len(s) : s[j] <= x

SeqMin(s) == CHOOSE x \in {s[j] : j \in 1..Len(s)} : \A j \in 1..Len(s) : x <= s[j]

\* The state of a method that is not being called.
Idle == [pc |-> "idle"]

-----------------------------------------------------------------------------
(* sliding_window_max(arr, k)                                              *)

\* line 33: the front index has left the window that ends at i
ExpiredOffByOne(front, i, k) == front < i - k

NeverExpired(front, i, k) == FALSE

Expired(front, i, k) == front <= i - k

\* lines 25-26 and 37-38: while dq and x >= arr[dq[-1]]: dq.pop()
RECURSIVE PopSmaller(_, _, _)
PopSmaller(dq, arr, x) ==
    IF dq # <<>> /\ x >= At(arr, Last(dq))
    THEN PopSmaller(SubSeq(dq, 1, Len(dq) - 1), arr, x)
    ELSE dq

SwmInputs ==
    [arr : SeqsUpTo(Values, MaxLen), k : (-1)..(MaxLen + 1), pc : {"start"},
     i : {0}, dq : {<<>>}, result : {<<>>}, result_is_arr : {FALSE}, err : {"none"}]

\* lines 15-21: the guards, then the empty result and deque.  arr is the
\* content of the caller's list object; result_is_arr says that the list the
\* call returns is that very object (line 18) and not a list the call made.
SwmEnter ==
    /\ swm.pc = "start"
    /\ swm' = IF swm.arr = <<>> \/ swm.k = 0
                THEN [swm EXCEPT !.pc = "done", !.result = <<>>]
              ELSE IF swm.k = 1
                THEN [swm EXCEPT !.pc = "done", !.result = swm.arr, !.result_is_arr = TRUE]
              ELSE [swm EXCEPT !.pc = "first", !.i = 0]
    /\ UNCHANGED <<rtd, kmp, ts, da, rtp, dth, swa>>

\* lines 24-27: one iteration of "for i in range(k)"
SwmFirstStep ==
    /\ swm.pc = "first"
    /\ swm.i < swm.k
    /\ swm' = IF ~InRange(swm.arr, swm.i)
                THEN [swm EXCEPT !.pc = "raised", !.err = "IndexError"]
                ELSE [swm EXCEPT
                        !.dq = Append(PopSmaller(swm.dq, swm.arr, At(swm.arr, swm.i)), swm.i),
                        !.i = swm.i + 1]
    /\ UNCHANGED <<rtd, kmp, ts, da, rtp, dth, swa>>

\* line 28: result.append(arr[dq[0]]) once range(k) is exhausted
SwmFirstEmit ==
    /\ swm.pc = "first"
    /\ ~(swm.i < swm.k)
    /\ swm' = IF swm.dq = <<>>
                THEN [swm EXCEPT !.pc = "raised", !.err = "IndexError"]
                ELSE [swm EXCEPT !.result = Append(swm.result, At(swm.arr, swm.dq[1])),
                                 !.pc = "rest", !.i = swm.k]
    /\ UNCHANGED <<rtd, kmp, ts, da, rtp, dth, swa>>

\* lines 31-41: one iteration of "for i in range(k, len(arr))"
SwmRestStep ==
    /\ swm.pc = "rest"
    /\ swm.i < Len(swm.arr)
    /\ LET evicted == IF swm.dq # <<>> /\ Expired(swm.dq[1], swm.i, swm.k)
                        THEN Tail(swm.dq) ELSE swm.dq
           pushed  == Append(PopSmaller(evicted, swm.arr, At(swm.arr, swm.i)), swm.i)
       IN swm' = [swm EXCEPT !.dq = pushed,
                             !.result = Append(swm.result, At(swm.arr, pushed[1])),
                             !.i = swm.i + 1]
    /\ UNCHANGED <<rtd, kmp, ts, da, rtp, dth, swa>>

\* line 43: return result
SwmReturn ==
    /\ swm.pc = "rest"
    /\ ~(swm.i < Len(swm.arr))
    /\ swm' = [swm EXCEPT !.pc = "done"]
    /\ UNCHANGED <<rtd, kmp, ts, da, rtp, dth, swa>>

\* after the call: the caller appends a value to the list it was returned;
\* a list that is the caller's arr object changes with it
SwmCallerAppends ==
    /\ swm.pc = "done"
    /\ \E v \in Values :
         LET modified == Append(swm.result, v)
         IN swm' = [swm EXCEPT !.pc = "modified", !.result = modified,
                               !.arr = IF swm.result_is_arr THEN modified ELSE swm.arr]
    /\ UNCHANGED <<rtd, kmp, ts, da, rtp, dth, swa>>

InitSwm ==
    /\ swm \in SwmInputs
    /\ rtd = Idle /\ kmp = Idle /\ ts = Idle /\ da = Idle
    /\ rtp = Idle /\ dth = Idle /\ swa = Idle

NextSwm ==
    \/ SwmEnter \/ SwmFirstStep \/ SwmFirstEmit \/ SwmRestStep \/ SwmReturn
    \/ SwmCallerAppends

SpecSwm == InitSwm /\ [][NextSwm]_vars

SwmCalled == swm.pc # "idle"

\* the maximum of arr[i .. i+k-1] (0-based, inclusive)
WindowMax(arr, i, k) == SeqMax(SubSeq(arr, i + 1, i + k))

\* C1: for 1 <= k <= len(arr) the call raises nothing and returns len(arr)-k+1
\* values, the value at position i being the maximum of arr[i .. i+k-1].
C1_WindowMaxima ==
    (SwmCalled /\ 1 <= swm.k /\ swm.k <= Len(swm.arr)) =>
        /\ swm.pc # "raised"
        /\ swm.pc = "done" =>
            /\ Len(swm.result) = Len(swm.arr) - swm.k + 1
            /\ \A i \in 0..(Len(swm.result) - 1) :
                 At(swm.result, i) = WindowMax(swm.arr, i, swm.k)

\* a finished call with 2 <= k < len(arr) whose maxima differ, the front having
\* been evicted at least once
C1_Witness ==
    /\ SwmCalled /\ swm.pc = "done"
    /\ 2 <= swm.k /\ swm.k < Len(swm.arr)
    /\ At(swm.arr, 0) > At(swm.arr, 1)
    /\ At(swm.result, 0) > At(swm.result, Len(swm.result) - 1)

\* C6: for k <= 0 or k > len(arr) the call raises nothing and returns [].
C6_DegenerateSizesEmpty ==
    (SwmCalled /\ (swm.k <= 0 \/ swm.k > Len(swm.arr))) =>
        /\ swm.pc # "raised"
        /\ swm.pc = "done" => swm.result = <<>>

\* C12: for k = 1 and a non-empty arr the returned list has the content of
\* arr and is not the caller's arr object: a later modification of the
\* returned list leaves arr unchanged.
C12_FreshCopy ==
    [][(swm.pc = "done" /\ swm.k = 1 /\ swm.arr # <<>>) =>
          /\ swm.result = swm.arr
          /\ ~swm.result_is_arr
          /\ swm'.arr = swm.arr]_vars

\* C13: for 2 <= k <= len(arr), whenever the front of the deque has been read
\* as the maximum of the window that ends at the index just processed, the
\* deque is non-empty, its indices increase strictly from front to back, the
\* values at them do not increase, and every index lies in that window.
C13_MonotonicDeque ==
    (/\ SwmCalled /\ 2 <= swm.k /\ swm.k <= Len(swm.arr)
     /\ swm.pc \in {"rest", "done"}) =>
        LET processed == swm.i - 1
            dq == swm.dq
        IN /\ dq # <<>>
           /\ Last(swm.result) = At(swm.arr, dq[1])
           /\ \A a, b \in 1..Len(dq) : a < b =>
                /\ dq[a] < dq[b]
                /\ At(swm.arr, dq[a]) >= At(swm.arr, dq[b])
           /\ \A a \in 1..Len(dq) :
                processed - swm.k + 1 <= dq[a] /\ dq[a] <= processed

\* the front has just been read after the previous maximum left the window:
\* the maximum dropped, and the deque holds several indices
C13_Witness ==
    /\ SwmCalled /\ swm.pc = "rest"
    /\ 2 <= swm.k /\ swm.i > swm.k
    /\ Len(swm.dq) >= 2
    /\ At(swm.result, Len(swm.result) - 2) > At(swm.result, Len(swm.result) - 1)

-----------------------------------------------------------------------------
(* process_real_time_data(data_stream, window_size)                        *)

\* line 64: 'increasing' if window[-1] > window[0] else 'decreasing'
TrendTieIncreasing(window) ==
    IF Last(window) >= window[1] THEN "increasing" ELSE "decreasing"

Trend(window) ==
    IF Last(window) > window[1] THEN "increasing" ELSE "decreasing"

\* lines 60-65: the statistics of a non-empty window; avg is the quotient
\* sum(window) / len(window), kept as its numerator and denominator
Stats(window) ==
    [max |-> SeqMax(window), min |-> SeqMin(window),
     avg |-> [num |-> SeqSum(window), den |-> Len(window)],
     trend |-> Trend(window)]

RtdInputs ==
    [data_stream : SeqsUpTo(Values, MaxLen), window_size : (-1)..(MaxLen + 1),
     pc : {"loop"}, n : {0}, window : {<<>>}, results : {<<>>}, err : {"none"}]

\* lines 54-66: one iteration of "for data_point in data_stream"; n counts the
\* points consumed.  max() of an empty window raises ValueError.
RtdStep ==
    /\ rtd.pc = "loop"
    /\ rtd.n < Len(rtd.data_stream)
    /\ LET appended == Append(rtd.window, At(rtd.data_stream, rtd.n))
           window   == IF Len(appended) > rtd.window_size THEN Tail(appended) ELSE appended
       IN rtd' = IF Len(window) # rtd.window_size
                   THEN [rtd EXCEPT !.window = window, !.n = rtd.n + 1]
                 ELSE IF window = <<>>
                   THEN [rtd EXCEPT !.window = window, !.pc = "raised", !.err = "ValueError"]
                 ELSE [rtd EXCEPT !.window = window, !.n = rtd.n + 1,
                                  !.results = Append(rtd.results, Stats(window))]
    /\ UNCHANGED <<swm, kmp, ts, da, rtp, dth, swa>>

\* line 68: return results
RtdReturn ==
    /\ rtd.pc = "loop"
    /\ ~(rtd.n < Len(rtd.data_stream))
    /\ rtd' = [rtd EXCEPT !.pc = "done"]
    /\ UNCHANGED <<swm, kmp, ts, da, rtp, dth, swa>>

InitRtd ==
    /\ rtd \in RtdInputs
    /\ swm = Idle /\ kmp = Idle /\ ts = Idle /\ da = Idle
    /\ rtp = Idle /\ dth = Idle /\ swa = Idle

NextRtd == RtdStep \/ RtdReturn

SpecRtd == InitRtd /\ [][NextRtd]_vars

RtdCalled == rtd.pc # "idle"

Max0(x) == IF x > 0 THEN x ELSE 0

\* what C9 says of a call: no exception, a buffer of at most window_size
\* points behind every record, and on return max(0, len - window_size + 1)
\* records, the i-th with the max, min and trend of stream[i .. i+window_size-1]
RtdContract ==
    /\ rtd.pc # "raised"
    /\ Len(rtd.window) <= Max0(rtd.window_size)
    /\ \A j \in 1..Len(rtd.results) : rtd.results[j].avg.den <= rtd.window_size
    /\ rtd.pc = "done" =>
        /\ Len(rtd.results) = Max0(Len(rtd.data_stream) - rtd.window_size + 1)
        /\ \A i \in 0..(Len(rtd.results) - 1) :
             LET w == SubSeq(rtd.data_stream, i + 1, i + rtd.window_size)
                 first == At(rtd.data_stream, i)
                 last  == At(rtd.data_stream, i + rtd.window_size - 1)
             IN /\ At(rtd.results, i).max = SeqMax(w)
                /\ At(rtd.results, i).min = SeqMin(w)
                /\ At(rtd.results, i).trend = "increasing" <=> last > first
                /\ At(rtd.results, i).trend = "decreasing" <=> ~(last > first)

-----------------------------------------------------------------------------
(* kmp_search(text, pattern)                                               *)

\* Bounds of the explored texts and patterns.
MaxText == 5
MaxPat == 3

Chars == {"a", "b"}

\* lines 81-92: the loop of build_lps, from the state (lps, length, i)
RECURSIVE LpsLoop(_, _, _, _)
LpsLoop(pattern, lps, length, i) ==
    IF ~(i < Len(pattern)) THEN lps
    ELSE IF At(pattern, i) = At(pattern, length)
        THEN LpsLoop(pattern, [lps EXCEPT ![i + 1] = length + 1], length + 1, i + 1)
    ELSE IF length # 0
        THEN LpsLoop(pattern, lps, At(lps, length - 1), i)
    ELSE LpsLoop(pattern, [lps EXCEPT ![i + 1] = 0], length, i + 1)

\* lines 76-92: build_lps(pattern)
build_lps(pattern) == LpsLoop(pattern, [x \in 1..Len(pattern) |-> 0], 0, 1)

\* line 108: where the scan of the pattern resumes after a full match
ResumeFromStart(lps, j) == 0

ResumeAfterMatch(lps, j) == At(lps, j - 1)

KmpInputs ==
    [text : SeqsUpTo(Chars, MaxText), pattern : SeqsUpTo(Chars, MaxPat),
     pc : {"start"}, lps : {<<>>}, i : {0}, j : {0}, result : {<<>>}, err : {"none"}]

\* lines 94-99: the guard, the table, the empty result
KmpEnter ==
    /\ kmp.pc = "start"
    /\ kmp' = IF kmp.pattern = <<>> \/ kmp.text = <<>>
                THEN [kmp EXCEPT !.pc = "done", !.result = <<>>]
                ELSE [kmp EXCEPT !.pc = "scan", !.lps = build_lps(kmp.pattern),
                                 !.i = 0, !.j = 0]
    /\ UNCHANGED <<swm, rtd, ts, da, rtp, dth, swa>>

\* lines 101-113: one iteration of "while i < len(text)"
KmpStep ==
    /\ kmp.pc = "scan"
    /\ kmp.i < Len(kmp.text)
    /\ IF ~InRange(kmp.pattern, kmp.j)
         THEN kmp' = [kmp EXCEPT !.pc = "raised", !.err = "IndexError"]
         ELSE LET hit == At(kmp.pattern, kmp.j) = At(kmp.text, kmp.i)
                  i == IF hit THEN kmp.i + 1 ELSE kmp.i
                  j == IF hit THEN kmp.j + 1 ELSE kmp.j
              IN IF j = Len(kmp.pattern)
                   THEN kmp' = [kmp EXCEPT !.i = i,
                                           !.result = Append(kmp.result, i - j),
                                           !.j = ResumeAfterMatch(kmp.lps, j)]
                 ELSE IF i < Len(kmp.text) /\ At(kmp.pattern, j) # At(kmp.text, i)
                   THEN IF j # 0
                          THEN kmp' = [kmp EXCEPT !.i = i, !.j = At(kmp.lps, j - 1)]
                          ELSE kmp' = [kmp EXCEPT !.i = i + 1, !.j = j]
                 ELSE kmp' = [kmp EXCEPT !.i = i, !.j = j]
    /\ UNCHANGED <<swm, rtd, ts, da, rtp, dth, swa>>

\* line 115: return result
KmpReturn ==
    /\ kmp.pc = "scan"
    /\ ~(kmp.i < Len(kmp.text))
    /\ kmp' = [kmp EXCEPT !.pc = "done"]
    /\ UNCHANGED <<swm, rtd, ts, da, rtp, dth, swa>>

InitKmp ==
    /\ kmp \in KmpInputs
    /\ swm = Idle /\ rtd = Idle /\ ts = Idle /\ da = Idle
    /\ rtp = Idle /\ dth = Idle /\ swa = Idle

NextKmp == KmpEnter \/ KmpStep \/ KmpReturn

SpecKmp == InitKmp /\ [][NextKmp]_vars

KmpCalled == kmp.pc # "idle"

\* the 0-based positions p with text[p .. p+len(pattern)-1] = pattern
Occurrences(text, pattern) ==
    {p \in 0..(Len(text) - Len(pattern)) :
        SubSeq(text, p + 1, p + Len(pattern)) = pattern}

\* C2: the call raises nothing and returns, ascending and without duplicates,
\* exactly the positions where pattern occurs in text (overlaps included);
\* an empty pattern or an empty text gives [].
C2_AllOccurrences ==
    KmpCalled =>
        /\ kmp.pc # "raised"
        /\ kmp.pc = "done" =>
            /\ \A a, b \in 1..Len(kmp.result) : a < b => kmp.result[a] < kmp.result[b]
            /\ {kmp.result[a] : a \in 1..Len(kmp.result)} =
                 IF kmp.pattern = <<>> \/ kmp.text = <<>>
                   THEN {} ELSE Occurrences(kmp.text, kmp.pattern)

\* a finished search that reported two overlapping occurrences
C2_Witness ==
    /\ KmpCalled /\ kmp.pc = "done"
    /\ \E a, b \in 1..Len(kmp.result) :
         /\ kmp.result[a] < kmp.result[b]
         /\ kmp.result[b] - kmp.result[a] < Len(kmp.pattern)

-----------------------------------------------------------------------------
(* two_sum_sorted(arr, target)                                             *)

TsValues == (-1)..(MaxVal + 1)

Targets == (-2)..(2 * MaxVal + 2)

\* the precondition of the method: arr is sorted ascending
IsSorted(arr) == \A a, b \in 1..Len(arr) : a < b => arr[a] <= arr[b]

\* line 126: while left < right
ContinueInclusive(left, right) == left <= right

Continue(left, right) == left < right

\* Python's arr[i]: defined for -len(arr) <= i < len(arr), a negative i
\* counting from the end
Readable(arr, i) == -Len(arr) <= i /\ i < Len(arr)

PyAt(arr, i) == IF i < 0 THEN arr[Len(arr) + i + 1] ELSE arr[i + 1]

TsInputs ==
    [arr : {a \in SeqsUpTo(TsValues, MaxLen) : IsSorted(a)}, target : Targets,
     pc : {"start"}, left : {0}, right : {0}, reads : {{}},
     result : {<<0, 0>>}, err : {"none"}]

\* line 124: left, right = 0, len(arr) - 1
TsEnter ==
    /\ ts.pc = "start"
    /\ ts' = [ts EXCEPT !.pc = "loop", !.left = 0, !.right = Len(ts.arr) - 1]
    /\ UNCHANGED <<swm, rtd, kmp, da, rtp, dth, swa>>

\* lines 126-133: one iteration of the loop; reads collects the indices at
\* which arr was read
TsStep ==
    /\ ts.pc = "loop"
    /\ Continue(ts.left, ts.right)
    /\ IF ~(Readable(ts.arr, ts.left) /\ Readable(ts.arr, ts.right))
         THEN ts' = [ts EXCEPT !.pc = "raised", !.err = "IndexError",
                               !.reads = ts.reads \cup {ts.left, ts.right}]
         ELSE LET current_sum == PyAt(ts.arr, ts.left) + PyAt(ts.arr, ts.right)
                  reads == ts.reads \cup {ts.left, ts.right}
              IN IF current_sum = ts.target
                   THEN ts' = [ts EXCEPT !.pc = "done", !.reads = reads,
                                         !.result = <<ts.left, ts.right>>]
                 ELSE IF current_sum < ts.target
                   THEN ts' = [ts EXCEPT !.left = ts.left + 1, !.reads = reads]
                 ELSE ts' = [ts EXCEPT !.right = ts.right - 1, !.reads = reads]
    /\ UNCHANGED <<swm, rtd, kmp, da, rtp, dth, swa>>

\* line 134: return (-1, -1)
TsReturnNone ==
    /\ ts.pc = "loop"
    /\ ~Continue(ts.left, ts.right)
    /\ ts' = [ts EXCEPT !.pc = "done", !.result = <<-1, -1>>]
    /\ UNCHANGED <<swm, rtd, kmp, da, rtp, dth, swa>>

InitTs ==
    /\ ts \in TsInputs
    /\ swm = Idle /\ rtd = Idle /\ kmp = Idle /\ da = Idle
    /\ rtp = Idle /\ dth = Idle /\ swa = Idle

NextTs == TsEnter \/ TsStep \/ TsReturnNone

SpecTs == InitTs /\ [][NextTs]_vars

TsCalled == ts.pc # "idle"

\* two distinct positions of arr hold values that sum to target
PairExists(arr, target) ==
    \E a, b \in 1..Len(arr) : a < b /\ arr[a] + arr[b] = target

\* C3: on a sorted arr the call reads no index outside 0..len(arr)-1, returns
\* (-1, -1) exactly when no two distinct positions sum to target, and
\* otherwise a pair left < right of positions whose values sum to target.
C3_TwoSumSorted ==
    TsCalled =>
        /\ ts.pc # "raised"
        /\ \A r \in ts.reads : 0 <= r /\ r <= Len(ts.arr) - 1
        /\ ts.pc = "done" =>
            /\ ts.result = <<-1, -1>> <=> ~PairExists(ts.arr, ts.target)
            /\ ts.result # <<-1, -1>> =>
                 /\ 0 <= ts.result[1] /\ ts.result[1] < ts.result[2]
                 /\ ts.result[2] < Len(ts.arr)
                 /\ At(ts.arr, ts.result[1]) + At(ts.arr, ts.result[2]) = ts.target

\* a finished search that moved both pointers before it found its pair
C3_Witness ==
    /\ TsCalled /\ ts.pc = "done"
    /\ ts.result[1] > 0 /\ ts.result[2] < Len(ts.arr) - 1

-----------------------------------------------------------------------------
(* detect_anomalies(data_stream, threshold)                                *)
(* The method computes in floating point.  Here mean, std_dev and the      *)
(* comparison of line 152 are exact: with n = len(window), S = sum(window) *)
(* and D(x) = n*x - S, mean = S/n, std_dev = sqrt(Q / n^3) for             *)
(* Q = the sum of D(x)^2 over the window, and for a threshold tn/td >= 0   *)
(*   abs(x - mean) > threshold * std_dev  <=>  td^2 * n * D(x)^2 > tn^2 * Q *)
(* On every stream over DaValues of the explored lengths and every         *)
(* threshold of Thresholds the method run in Python decides as this does.  *)

\* Bound of the explored streams.
MaxStream == 6

\* line 145: data_stream[-5:]
TrailingWindow == 5

\* lines 141 and 147: fewer than 3 points are not analysed
MinPoints == 3

DaValues == {1, 5, 100}

Thresholds == {[num |-> 2, den |-> 1], [num |-> 1, den |-> 2],
               [num |-> 3, den |-> 2], [num |-> 1, den |-> 1]}

\* s[-n:]
LastN(s, n) == IF Len(s) <= n THEN s ELSE SubSeq(s, Len(s) - n + 1, Len(s))

\* n*x - sum(window): n times the signed distance of x from the mean
Dev(window, x) == Len(window) * x - SeqSum(window)

\* n^3 times the population variance of the window
RECURSIVE SumSqDev(_, _)
SumSqDev(window, rest) ==
    IF rest = <<>> THEN 0
    ELSE Dev(window, rest[1]) * Dev(window, rest[1]) + SumSqDev(window, Tail(rest))

\* line 152: std_dev > 0 and abs(current_value - mean) > threshold * std_dev
IsAnomaly(window, x, threshold) ==
    /\ SumSqDev(window, window) > 0
    /\ threshold.den * threshold.den * Len(window) * Dev(window, x) * Dev(window, x)
         > threshold.num * threshold.num * SumSqDev(window, window)

DaInputs ==
    [data_stream : SeqsUpTo(DaValues, MaxStream), threshold : Thresholds,
     pc : {"start"}, window : {<<>>}, anomalies : {<<>>}]

\* lines 141-145: the guard, then the trailing window
DaEnter ==
    /\ da.pc = "start"
    /\ da' = IF Len(da.data_stream) < MinPoints
               THEN [da EXCEPT !.pc = "done", !.anomalies = <<>>]
               ELSE [da EXCEPT !.pc = "check",
                               !.window = LastN(da.data_stream, TrailingWindow)]
    /\ UNCHANGED <<swm, rtd, kmp, ts, rtp, dth, swa>>

\* lines 147-160: the statistics of the window and the test of the last point
DaCheck ==
    /\ da.pc = "check"
    /\ LET current_value == Last(da.data_stream)
           n == Len(da.window)
       IN da' = IF /\ n >= MinPoints
                   /\ IsAnomaly(da.window, current_value, da.threshold)
                  THEN [da EXCEPT !.pc = "done",
                          !.anomalies = <<[index |-> Len(da.data_stream) - 1,
                                           value |-> current_value,
                                           mean |-> [num |-> SeqSum(da.window), den |-> n],
                                           std_dev |-> [sqrt_num |-> SumSqDev(da.window, da.window),
                                                        sqrt_den |-> n * n * n]]>>]
                  ELSE [da EXCEPT !.pc = "done"]
    /\ UNCHANGED <<swm, rtd, kmp, ts, rtp, dth, swa>>

InitDa ==
    /\ da \in DaInputs
    /\ swm = Idle /\ rtd = Idle /\ kmp = Idle /\ ts = Idle
    /\ rtp = Idle /\ dth = Idle /\ swa = Idle

NextDa == DaEnter \/ DaCheck

SpecDa == InitDa /\ [][NextDa]_vars

DaCalled == da.pc # "idle"

\* C4: on the stream [1, 1, 1, 1, 100] with threshold 2.0 the call returns
\* exactly one anomaly record, whose index is 4.
C4_FlagsLastPoint ==
    (/\ DaCalled /\ da.pc = "done"
     /\ da.data_stream = <<1, 1, 1, 1, 100>>
     /\ da.threshold = [num |-> 2, den |-> 1]) =>
        /\ Len(da.anomalies) = 1
        /\ da.anomalies[1].index = 4

-----------------------------------------------------------------------------
(* Strings.  A str is the sequence of its characters; split, join, lower,  *)
(* rstrip and startswith are computed character by character.              *)

UpperCase == <<"A", "B", "C", "D", "E", "F", "G", "H", "I", "J", "K", "L", "M", "N", "O", "P", "Q", "R", "S", "T", "U", "V", "W", "X", "Y", "Z">>

LowerCase == <<"a", "b", "c", "d", "e", "f", "g", "h", "i", "j", "k", "l", "m", "n", "o", "p", "q", "r", "s", "t", "u", "v", "w", "x", "y", "z">>

\* the whitespace str.split() splits on
Whitespace == {" ", "\t", "\n"}

\* lines 190 and 197: the punctuation rstrip('.,!?:;') removes
Punctuation == {".", ",", "!", "?", ":", ";"}

LowerChar(c) ==
    IF \E n \in 1..Len(UpperCase) : UpperCase[n] = c
      THEN LowerCase[CHOOSE n \in 1..Len(UpperCase) : UpperCase[n] = c]
      ELSE c

\* word.lower()
Lower(word) == [n \in 1..Len(word) |-> LowerChar(word[n])]

\* word.rstrip(chars)
RECURSIVE RStrip(_, _)
RStrip(word, chars) ==
    IF word # <<>> /\ Last(word) \in chars
      THEN RStrip(SubSeq(word, 1, Len(word) - 1), chars)
      ELSE word

\* word.startswith(c) for a one-character c
StartsWith(word, c) == word # <<>> /\ word[1] = c

\* text.split(): the maximal runs of non-whitespace characters, in order
RECURSIVE SplitFrom(_, _, _)
SplitFrom(text, word, words) ==
    IF text = <<>>
      THEN IF word = <<>> THEN words ELSE Append(words, word)
    ELSE IF text[1] \in Whitespace
      THEN SplitFrom(Tail(text), <<>>, IF word = <<>> THEN words ELSE Append(words, word))
    ELSE SplitFrom(Tail(text), Append(word, text[1]), words)

Split(text) == SplitFrom(text, <<>>, <<>>)

\* sep.join(words)
RECURSIVE Join(_, _)
Join(sep, words) ==
    IF words = <<>> THEN <<>>
    ELSE IF Len(words) = 1 THEN words[1]
    ELSE words[1] \o sep \o Join(sep, Tail(words))

\* [f(w) for w in words if keep(w)] for the two selections of the methods:
\* the words that start with the marker c, in order
RECURSIVE Marked(_, _)
Marked(words, c) ==
    IF words = <<>> THEN <<>>
    ELSE IF StartsWith(words[1], c) THEN <<words[1]>> \o Marked(Tail(words), c)
    ELSE Marked(Tail(words), c)

-----------------------------------------------------------------------------
(* process_real_time_posts(post_stream)                                    *)

\* Bound of the explored post streams.
MaxPosts == 2

\* line 204
positive_words ==
    {<<"g", "o", "o", "d">>,
     <<"g", "r", "e", "a", "t">>,
     <<"e", "x", "c", "e", "l", "l", "e", "n", "t">>,
     <<"a", "m", "a", "z", "i", "n", "g">>,
     <<"l", "o", "v", "e">>,
     <<"h", "a", "p", "p", "y">>,
     <<"b", "e", "s", "t">>}

\* line 205
negative_words ==
    {<<"b", "a", "d">>,
     <<"p", "o", "o", "r">>,
     <<"t", "e", "r", "r", "i", "b", "l", "e">>,
     <<"w", "o", "r", "s", "t">>,
     <<"h", "a", "t", "e">>,
     <<"s", "a", "d">>,
     <<"a", "w", "f", "u", "l">>}

\* lines 185-192 and 196-200: the marked words, stripped of trailing
\* punctuation, kept when more than the marker is left, lowercased
RECURSIVE CleanTags(_)
CleanTags(marked) ==
    IF marked = <<>> THEN <<>>
    ELSE LET clean_tag == RStrip(marked[1], Punctuation)
         IN IF Len(clean_tag) > 1
              THEN <<Lower(clean_tag)>> \o CleanTags(Tail(marked))
              ELSE CleanTags(Tail(marked))

\* line 207: set(w.lower() for w in words)
SentimentTokens(words) == {Lower(words[n]) : n \in 1..Len(words)}

\* lines 207-215
Sentiment(words) ==
    LET word_set == SentimentTokens(words)
        positive_count == Cardinality(word_set \cap positive_words)
        negative_count == Cardinality(word_set \cap negative_words)
    IN IF positive_count > negative_count THEN "positive"
       ELSE IF negative_count > positive_count THEN "negative"
       ELSE "neutral"

\* lines 181-226: the record made of a post that has a text
ProcessedPost(post) ==
    LET text == Join(<<" ">>, Split(post.text))
        words == Split(text)
    IN [original |-> post,
        clean_text |-> text,
        hashtags |-> CleanTags(Marked(words, "#")),
        mentions |-> CleanTags(Marked(words, "@")),
        sentiment |-> Sentiment(words),
        word_count |-> Len(words),
        timestamp |-> IF "timestamp" \in DOMAIN post THEN post.timestamp ELSE "None"]

\* "Having a #great day! #sunshine #happy"
TextGreatDay ==
    Join(<<" ">>, <<<<"H", "a", "v", "i", "n", "g">>, <<"a">>, <<"#", "g", "r", "e", "a", "t">>, <<"d", "a", "y", "!">>, <<"#", "s", "u", "n", "s", "h", "i", "n", "e">>, <<"#", "h", "a", "p", "p", "y">>>>)

\* "Not feeling well today #sad #weather"
TextNotWell ==
    Join(<<" ">>, <<<<"N", "o", "t">>, <<"f", "e", "e", "l", "i", "n", "g">>, <<"w", "e", "l", "l">>, <<"t", "o", "d", "a", "y">>, <<"#", "s", "a", "d">>, <<"#", "w", "e", "a", "t", "h", "e", "r">>>>)

\* "  I love  this. @Bob: # good BAD\tbad "
TextIrregular ==
    <<" ", " ">> \o <<"I", " ", "l", "o", "v", "e">> \o <<" ", " ">> \o <<"t", "h", "i", "s", ".", " ", "@", "B", "o", "b", ":", " ", "#", " ", "g", "o", "o", "d", " ", "B", "A", "D", "\t", "b", "a", "d", " ">>

\* "great great #Happy! #happy?! #HAPPY"
TextRepeats ==
    Join(<<" ">>, <<<<"g", "r", "e", "a", "t">>, <<"g", "r", "e", "a", "t">>, <<"#", "H", "a", "p", "p", "y", "!">>, <<"#", "h", "a", "p", "p", "y", "?", "!">>, <<"#", "H", "A", "P", "P", "Y">>>>)

SamplePosts ==
    {[text |-> TextGreatDay],
     [text |-> TextNotWell, user |-> "Bob"],
     [user |-> "Diana"],
     [text |-> TextIrregular, timestamp |-> 7],
     [text |-> TextRepeats],
     [text |-> <<>>]}

RtpInputs ==
    [post_stream : SeqsUpTo(SamplePosts, MaxPosts), pc : {"loop"}, n : {0},
     processed_posts : {<<>>}]

\* lines 177-179: a post without 'text' is skipped
RtpSkip ==
    /\ rtp.pc = "loop"
    /\ rtp.n < Len(rtp.post_stream)
    /\ "text" \notin DOMAIN At(rtp.post_stream, rtp.n)
    /\ rtp' = [rtp EXCEPT !.n = rtp.n + 1]
    /\ UNCHANGED <<swm, rtd, kmp, ts, da, dth, swa>>

\* lines 181-228: a post with 'text' is processed and appended
RtpProcess ==
    /\ rtp.pc = "loop"
    /\ rtp.n < Len(rtp.post_stream)
    /\ "text" \in DOMAIN At(rtp.post_stream, rtp.n)
    /\ rtp' = [rtp EXCEPT
                 !.processed_posts = Append(rtp.processed_posts,
                                            ProcessedPost(At(rtp.post_stream, rtp.n))),
                 !.n = rtp.n + 1]
    /\ UNCHANGED <<swm, rtd, kmp, ts, da, dth, swa>>

\* line 230: return processed_posts
RtpReturn ==
    /\ rtp.pc = "loop"
    /\ ~(rtp.n < Len(rtp.post_stream))
    /\ rtp' = [rtp EXCEPT !.pc = "done"]
    /\ UNCHANGED <<swm, rtd, kmp, ts, da, dth, swa>>

InitRtp ==
    /\ rtp \in RtpInputs
    /\ swm = Idle /\ rtd = Idle /\ kmp = Idle /\ ts = Idle
    /\ da = Idle /\ dth = Idle /\ swa = Idle

NextRtp == RtpSkip \/ RtpProcess \/ RtpReturn

SpecRtp == InitRtp /\ [][NextRtp]_vars

RtpCalled == rtp.pc # "idle"

\* C5: the single post "Having a #great day! #sunshine #happy" yields one
\* record with hashtags ["#great", "#sunshine", "#happy"], sentiment
\* "positive" and word_count 6.
C5_GreatDayPositive ==
    (/\ RtpCalled /\ rtp.pc = "done"
     /\ rtp.post_stream = <<[text |-> TextGreatDay]>>) =>
        /\ Len(rtp.processed_posts) = 1
        /\ rtp.processed_posts[1].hashtags =
             <<<<"#", "g", "r", "e", "a", "t">>, <<"#", "s", "u", "n", "s", "h", "i", "n", "e">>, <<"#", "h", "a", "p", "p", "y">>>>
        /\ rtp.processed_posts[1].sentiment = "positive"
        /\ rtp.processed_posts[1].word_count = 6

-----------------------------------------------------------------------------
(* detect_trending_hashtags(text_stream, window_size, top_n)               *)

\* Bounds of the explored streams and of top_n.
MaxTrendPosts == 3
MaxTopN == 3

\* s[start:]
PySliceFrom(s, start) ==
    LET from == IF start < 0 THEN Max0(Len(s) + start)
                ELSE IF start > Len(s) THEN Len(s) ELSE start
    IN SubSeq(s, from + 1, Len(s))

\* s[:stop]
PySliceTo(s, stop) ==
    LET to == IF stop < 0 THEN Max0(Len(s) + stop)
              ELSE IF stop > Len(s) THEN Len(s) ELSE stop
    IN SubSeq(s, 1, to)

\* line 246
RecentPosts(text_stream, window_size) ==
    IF Len(text_stream) > window_size
      THEN PySliceFrom(text_stream, -window_size)
      ELSE text_stream

\* line 255: [word.lower() for word in words if word.startswith('#')]
LowerAll(words) == [n \in 1..Len(words) |-> Lower(words[n])]

\* line 264: hashtag_counts[clean_tag] = hashtag_counts.get(clean_tag, 0) + 1,
\* the dictionary being the sequence of its items in insertion order
Tally(hashtag_counts, clean_tag) ==
    IF \E n \in 1..Len(hashtag_counts) : hashtag_counts[n].hashtag = clean_tag
      THEN [n \in 1..Len(hashtag_counts) |->
              IF hashtag_counts[n].hashtag = clean_tag
                THEN [hashtag_counts[n] EXCEPT !.count = @ + 1]
                ELSE hashtag_counts[n]]
      ELSE Append(hashtag_counts, [hashtag |-> clean_tag, count |-> 1])

\* lines 267-271: sorted(..., key=count, reverse=True) is stable: an item
\* stays behind every earlier item whose count is not smaller than its own
StaysBehindStrict(earlier, item) == earlier.count > item.count

StaysBehind(earlier, item) == earlier.count >= item.count

RECURSIVE InsertByCount(_, _)
InsertByCount(sorted, item) ==
    IF sorted = <<>> THEN <<item>>
    ELSE IF StaysBehind(Last(sorted), item) THEN Append(sorted, item)
    ELSE Append(InsertByCount(SubSeq(sorted, 1, Len(sorted) - 1), item), Last(sorted))

RECURSIVE SortedByCount(_)
SortedByCount(items) ==
    IF items = <<>> THEN <<>>
    ELSE InsertByCount(SortedByCount(SubSeq(items, 1, Len(items) - 1)), Last(items))

TrendPosts ==
    {[text |-> <<"#", "a">>],
     [text |-> <<"#", "b", " ", "#", "a", ".">>],
     [text |-> <<"#", "c", " ", "#", "B", "!", " ", "#">>, user |-> "Bob"],
     [text |-> <<"h", "i", " ", "#", "A", " ", "#", "a", " ", "#", "!">>],
     [user |-> "Diana"]}

DthInputs ==
    [text_stream : SeqsUpTo(TrendPosts, MaxTrendPosts),
     window_size : (-1)..(MaxTrendPosts + 1), top_n : 0..MaxTopN,
     pc : {"start"}, recent_posts : {<<>>}, n : {0}, all_hashtags : {<<>>},
     hashtag_counts : {<<>>}, trending : {<<>>}]

\* lines 246-249
DthWindow ==
    /\ dth.pc = "start"
    /\ dth' = [dth EXCEPT !.pc = "extract", !.n = 0, !.all_hashtags = <<>>,
                 !.recent_posts = RecentPosts(dth.text_stream, dth.window_size)]
    /\ UNCHANGED <<swm, rtd, kmp, ts, da, rtp, swa>>

\* lines 250-252: a post without 'text' is skipped
DthSkip ==
    /\ dth.pc = "extract"
    /\ dth.n < Len(dth.recent_posts)
    /\ "text" \notin DOMAIN At(dth.recent_posts, dth.n)
    /\ dth' = [dth EXCEPT !.n = dth.n + 1]
    /\ UNCHANGED <<swm, rtd, kmp, ts, da, rtp, swa>>

\* lines 254-256: the lowercased '#' words of a post are collected
DthExtract ==
    /\ dth.pc = "extract"
    /\ dth.n < Len(dth.recent_posts)
    /\ "text" \in DOMAIN At(dth.recent_posts, dth.n)
    /\ LET words == Split(At(dth.recent_posts, dth.n).text)
           hashtags == LowerAll(Marked(words, "#"))
       IN dth' = [dth EXCEPT !.all_hashtags = dth.all_hashtags \o hashtags,
                             !.n = dth.n + 1]
    /\ UNCHANGED <<swm, rtd, kmp, ts, da, rtp, swa>>

\* line 259: the posts are exhausted, the tally starts
DthStartCount ==
    /\ dth.pc = "extract"
    /\ ~(dth.n < Len(dth.recent_posts))
    /\ dth' = [dth EXCEPT !.pc = "count", !.n = 0, !.hashtag_counts = <<>>]
    /\ UNCHANGED <<swm, rtd, kmp, ts, da, rtp, swa>>

\* lines 260-264: one iteration of "for tag in all_hashtags"
DthCount ==
    /\ dth.pc = "count"
    /\ dth.n < Len(dth.all_hashtags)
    /\ LET clean_tag == RStrip(At(dth.all_hashtags, dth.n), Punctuation)
       IN dth' = IF Len(clean_tag) > 1
                   THEN [dth EXCEPT !.hashtag_counts = Tally(dth.hashtag_counts, clean_tag),
                                    !.n = dth.n + 1]
                   ELSE [dth EXCEPT !.n = dth.n + 1]
    /\ UNCHANGED <<swm, rtd, kmp, ts, da, rtp, swa>>

\* lines 267-275: sort, keep the first top_n, return
DthRank ==
    /\ dth.pc = "count"
    /\ ~(dth.n < Len(dth.all_hashtags))
    /\ dth' = [dth EXCEPT !.pc = "done",
                 !.trending = PySliceTo(SortedByCount(dth.hashtag_counts), dth.top_n)]
    /\ UNCHANGED <<swm, rtd, kmp, ts, da, rtp, swa>>

InitDth ==
    /\ dth \in DthInputs
    /\ swm = Idle /\ rtd = Idle /\ kmp = Idle /\ ts = Idle
    /\ da = Idle /\ rtp = Idle /\ swa = Idle

NextDth == DthWindow \/ DthSkip \/ DthExtract \/ DthStartCount \/ DthCount \/ DthRank

SpecDth == InitDth /\ [][NextDth]_vars

DthCalled == dth.pc # "idle"

\* the hashtags of a sequence of posts, cleaned, in the order of the scan
RECURSIVE TagStream(_)
TagStream(posts) ==
    IF posts = <<>> THEN <<>>
    ELSE IF "text" \in DOMAIN posts[1]
      THEN CleanTags(Marked(Split(posts[1].text), "#")) \o TagStream(Tail(posts))
    ELSE TagStream(Tail(posts))

CountIn(stream, tag) == Cardinality({n \in 1..Len(stream) : stream[n] = tag})

FirstSeen(stream, tag) ==
    CHOOSE n \in 1..Len(stream) :
        stream[n] = tag /\ \A m \in 1..(n - 1) : stream[m] # tag

\* the last min(m, len(posts)) posts
LastPosts(posts, m) ==
    SubSeq(posts, Len(posts) - (IF m < Len(posts) THEN m ELSE Len(posts)) + 1, Len(posts))

\* C8: for window_size >= 0 only the last min(window_size, len(posts)) posts
\* are counted: every returned count is the hashtag's number of occurrences
\* in those posts, so a hashtag absent from them is not returned.
C8_CountsOnlyLastPosts ==
    (DthCalled /\ dth.pc = "done" /\ dth.window_size >= 0) =>
        LET stream == TagStream(LastPosts(dth.text_stream, dth.window_size))
        IN \A e \in 1..Len(dth.trending) :
             dth.trending[e].count = CountIn(stream, dth.trending[e].hashtag)

\* C10: the result has at most top_n entries, each a hashtag of the windowed
\* posts with its number of occurrences, in non-increasing order of count,
\* equal counts in the order of first encounter, and no hashtag left out has
\* a count greater than one returned.
C10_RankedStable ==
    (DthCalled /\ dth.pc = "done") =>
        LET stream == TagStream(dth.recent_posts)
            out == dth.trending
        IN /\ Len(out) <= dth.top_n
           /\ \A e \in 1..Len(out) :
                /\ out[e].count >= 1
                /\ out[e].count = CountIn(stream, out[e].hashtag)
           /\ \A a, b \in 1..Len(out) : a < b =>
                /\ out[a].count >= out[b].count
                /\ out[a].count = out[b].count =>
                     FirstSeen(stream, out[a].hashtag) < FirstSeen(stream, out[b].hashtag)
           /\ \A n \in 1..Len(stream) :
                (\A e \in 1..Len(out) : out[e].hashtag # stream[n]) =>
                    \A e \in 1..Len(out) : CountIn(stream, stream[n]) <= out[e].count

\* a finished call whose sort moved the hashtag seen last to the front, ahead
\* of two hashtags of equal count
C10_Witness ==
    /\ DthCalled /\ dth.pc = "done"
    /\ Len(dth.trending) = 3
    /\ dth.trending[1].count > dth.trending[2].count
    /\ dth.trending[2].count = dth.trending[3].count
    /\ dth.trending[1] = dth.hashtag_counts[3]

-----------------------------------------------------------------------------
(* sliding_window_analysis(interaction_data, window_size, step_size)       *)
(* The averages are quotients, kept as numerator and denominator; the      *)
(* comparison of line 323 is exact: avg_engagement is                      *)
(* (sum(likes) + sum(shares) + sum(comments)) / (3 * len(window)).  On     *)
(* every explored input the method run in Python decides as this does.     *)

\* Bounds of the explored data and of step_size.
MaxData == 3
MaxStep == 2

\* lines 312-313: the trend compares the last 3 and the first 3 points
TrendSpan == 3

\* lines 317-318: the divisor of avg_engagement
MetricCount == 3

\* line 323: the factor of avg_engagement a spike exceeds
SpikeFactor == 2

\* s[start:stop] for start >= 0
PySlice(s, start, stop) ==
    LET from == IF start > Len(s) THEN Len(s) ELSE start
        to == IF stop < 0 THEN Max0(Len(s) + stop)
              ELSE IF stop > Len(s) THEN Len(s) ELSE stop
    IN IF from < to THEN SubSeq(s, from + 1, to) ELSE <<>>

\* item.get(key, 0)
Get(item, key) == IF key \in DOMAIN item THEN item[key] ELSE 0

\* lines 300-302: [item.get(key, 0) for item in window]
Metric(window, key) == [n \in 1..Len(window) |-> Get(window[n], key)]

\* lines 308-310: sum(xs) / len(xs) if xs else 0
Average(xs) ==
    IF xs # <<>> THEN [num |-> SeqSum(xs), den |-> Len(xs)] ELSE [num |-> 0, den |-> 1]

\* line 321
Engagement(point) == Get(point, "likes") + Get(point, "shares") + Get(point, "comments")

\* lines 317-323: last_engagement > 2 * avg_engagement, where avg_engagement
\* is (avg_likes + avg_shares + avg_comments) / 3, the three averages having
\* the denominator len(window)
IsSpike(window, total) ==
    Engagement(Last(window)) * MetricCount * Len(window) > SpikeFactor * total

\* lines 297-326: the statistics of a non-empty window that starts at i
WindowStats(window, i, window_size) ==
    LET likes == Metric(window, "likes")
        shares == Metric(window, "shares")
        comments == Metric(window, "comments")
        total == SeqSum(likes) + SeqSum(shares) + SeqSum(comments)
        recent == SeqSum(LastN(likes, TrendSpan)) + SeqSum(LastN(shares, TrendSpan))
                    + SeqSum(LastN(comments, TrendSpan))
        early == SeqSum(PySliceTo(likes, TrendSpan)) + SeqSum(PySliceTo(shares, TrendSpan))
                    + SeqSum(PySliceTo(comments, TrendSpan))
    IN [window_start |-> i,
        window_end |-> i + window_size - 1,
        avg_likes |-> Average(likes),
        avg_shares |-> Average(shares),
        avg_comments |-> Average(comments),
        total_engagement |-> total,
        engagement_trend |-> IF recent > early THEN "increasing" ELSE "decreasing",
        spike_detected |-> IsSpike(window, total)]

DataPoints ==
    {[likes |-> 0, shares |-> 0, comments |-> 0],
     [likes |-> 1],
     [likes |-> 2, shares |-> 1],
     [likes |-> 3, shares |-> 2, comments |-> 4, user |-> "Alice"]}

SwaInputs ==
    [interaction_data : SeqsUpTo(DataPoints, MaxData),
     window_size : (-1)..(MaxData + 1), step_size : (-1)..MaxStep,
     pc : {"start"}, i : {0}, results : {<<>>}, err : {"none"}]

\* lines 290-296: the guard, the empty results, the range of the loop
\* (range() raises ValueError for a step of 0)
SwaEnter ==
    /\ swa.pc = "start"
    /\ swa' = IF swa.interaction_data = <<>> \/ Len(swa.interaction_data) < swa.window_size
                THEN [swa EXCEPT !.pc = "done", !.results = <<>>]
              ELSE IF swa.step_size = 0
                THEN [swa EXCEPT !.pc = "raised", !.err = "ValueError"]
              ELSE [swa EXCEPT !.pc = "loop", !.i = 0, !.results = <<>>]
    /\ UNCHANGED <<swm, rtd, kmp, ts, da, rtp, dth>>

\* line 296: i is in range(0, len(interaction_data) - window_size + 1, step_size)
InWindowRangeShort(i) ==
    /\ swa.step_size > 0
    /\ i < Len(swa.interaction_data) - swa.window_size

InWindowRange(i) ==
    /\ swa.step_size > 0
    /\ i < Len(swa.interaction_data) - swa.window_size + 1

\* lines 296-328: one iteration of the loop; window[-1] of an empty window
\* raises IndexError
SwaStep ==
    /\ swa.pc = "loop"
    /\ InWindowRange(swa.i)
    /\ LET window == PySlice(swa.interaction_data, swa.i, swa.i + swa.window_size)
       IN swa' = IF window = <<>>
                   THEN [swa EXCEPT !.pc = "raised", !.err = "IndexError"]
                   ELSE [swa EXCEPT
                           !.results = Append(swa.results,
                                              WindowStats(window, swa.i, swa.window_size)),
                           !.i = swa.i + swa.step_size]
    /\ UNCHANGED <<swm, rtd, kmp, ts, da, rtp, dth>>

\* line 330: return results
SwaReturn ==
    /\ swa.pc = "loop"
    /\ ~InWindowRange(swa.i)
    /\ swa' = [swa EXCEPT !.pc = "done"]
    /\ UNCHANGED <<swm, rtd, kmp, ts, da, rtp, dth>>

InitSwa ==
    /\ swa \in SwaInputs
    /\ swm = Idle /\ rtd = Idle /\ kmp = Idle /\ ts = Idle
    /\ da = Idle /\ rtp = Idle /\ dth = Idle

NextSwa == SwaEnter \/ SwaStep \/ SwaReturn

SpecSwa == InitSwa /\ [][NextSwa]_vars

SwaCalled == swa.pc # "idle"

\* C7: in every record returned for a window of window_size >= 1 points,
\* spike_detected is true iff the engagement of the window's last point
\* exceeds twice total_engagement / window_size.
C7_SpikeOverWindowAverage ==
    (SwaCalled /\ swa.pc = "done" /\ swa.window_size >= 1) =>
        \A r \in 1..Len(swa.results) :
            LET rec == swa.results[r]
                last == Engagement(At(swa.interaction_data, rec.window_end))
            IN rec.spike_detected <=>
                 last * swa.window_size > 2 * rec.total_engagement

\* what C11 says of a call: with window_size > len(input) it returns [];
\* with step_size = 1 and window_size <= len(input) it raises nothing and
\* returns len(input) - window_size + 1 records, whose window_start values
\* are 0, 1, 2, ... and whose window_end is window_start + window_size - 1
SwaContract ==
    /\ swa.window_size > Len(swa.interaction_data) =>
         /\ swa.pc # "raised"
         /\ swa.pc = "done" => swa.results = <<>>
    /\ (swa.window_size <= Len(swa.interaction_data) /\ swa.step_size = 1) =>
         /\ swa.pc # "raised"
         /\ swa.pc = "done" =>
              /\ Len(swa.results) = Len(swa.interaction_data) - swa.window_size + 1
              /\ \A r \in 0..(Len(swa.results) - 1) :
                   /\ At(swa.results, r).window_start = r
                   /\ At(swa.results, r).window_end = r + swa.window_size - 1

-----------------------------------------------------------------------------
(* The class: one call of one of its static methods.                       *)

Init ==
    \/ InitSwm \/ InitRtd \/ InitKmp \/ InitTs
    \/ InitDa \/ InitRtp \/ InitDth \/ InitSwa

Next ==
    \/ NextSwm \/ NextRtd \/ NextKmp \/ NextTs
    \/ NextDa \/ NextRtp \/ NextDth \/ NextSwa

Spec == Init /\ [][Next]_vars

=============================================================================
